---- MODULE Spec2Model ----
(***************************************************************************)
(* Model of the Visual Mind AI service worker (src/sw.js).                 *)
(*                                                                         *)
(* The state is the host's cache store (named caches in creation order,    *)
(* each a map from a request URL to a stored response) and the position of *)
(* every event handler's promise chain.  Each promise continuation of the  *)
(* source is one action; the host's outcomes (a fetch resolving or         *)
(* rejecting, a cache operation succeeding or failing) are chosen          *)
(* nondeterministically.                                                   *)
(***************************************************************************)
EXTENDS Integers, Sequences, FiniteSets, TLC

VARIABLES
    cacheOrder,      \* names of the existing caches, in creation order (caches.keys())
    cacheEntries,    \* cache name -> (href -> stored response, or NoEntry)
    installPc,       \* position of the install handler's chain
    installOrphan,   \* the install handler's Cache object was deleted from the store
    precacheOk,      \* manifest hrefs whose fetch inside addAll succeeded
    skipWaitingCalled,
    activatePc,      \* position of the activate handler's chain
    listed,          \* cacheNames the activate handler got from caches.keys()
    delRequested,    \* names the activate handler passed to caches.delete
    delPending,      \* of those, the deletions not yet settled
    claimCalled,     \* self.clients.claim() was called
    fetches,         \* the fetch handler invocations in flight
    msgPc,           \* position of the message handler's CLEAR_CACHE chain
    msgPending,      \* names whose caches.delete the message handler awaits
    msgCount,        \* CLEAR_CACHE messages delivered so far
    posted,          \* number of times the CACHE_CLEARED broadcast ran
    controlled,      \* the window clients this worker controls
    msgClients,      \* clients the message handler got from clients.matchAll()
    received,        \* client -> number of CACHE_CLEARED messages it received
    pushes,          \* payloads of the push events delivered so far
    shown,           \* notifications displayed by showNotification, in order
    clickPc,         \* position of the notificationclick handler's chain
    openClients,     \* the clients of the origin that are open
    notifOpen,       \* the clicked notification is still displayed
    focused,         \* clients the notificationclick handler focused
    opened           \* number of windows the notificationclick handler opened

vars == << cacheOrder, cacheEntries, installPc, installOrphan, precacheOk,
           skipWaitingCalled, activatePc, listed, delRequested, delPending,
           claimCalled, fetches, msgPc, msgPending, msgCount, posted,
           controlled, msgClients, received, pushes, shown,
           clickPc, openClients, notifOpen, focused, opened >>

clientVars == << controlled, msgClients, received >>
pushVars == << pushes, shown >>
clickVars == << clickPc, openClients, notifOpen, focused, opened >>

----------------------------------------------------------------------------
(* Bounds *)

MaxFetches == 1      \* fetch handlers in flight at the same time
MaxClears == 1       \* CLEAR_CACHE messages delivered in one behaviour
MaxPushes == 1       \* push events delivered in one behaviour

----------------------------------------------------------------------------
(* Program constants *)

CACHE_NAME == "visual-mind-ai-v1.0.0"
RUNTIME_CACHE == "visual-mind-runtime-v1.0.0"

\* A cache left behind by an earlier version of the worker.
OldCache == "visual-mind-ai-v0.9.0"

OldRuntime == "visual-mind-runtime-v0.9.0"

CacheNames == {CACHE_NAME, RUNTIME_CACHE, OldCache, OldRuntime}

\* An href is the sequence of the pieces of the absolute URL; the worker is
\* served from SelfOrigin, against which the manifest's relative URLs resolve.
SelfOrigin == "https://app.example"
AnthropicOrigin == "https://api.anthropic.com"

PRECACHE_URLS ==
    << <<SelfOrigin, "/">>,
       <<SelfOrigin, "/visual-mind-ai-pwa.html">>,
       <<SelfOrigin, "/index.html">>,
       <<"https://cdn.tailwindcss.com">>,
       <<"https://unpkg.com", "/react@18/umd/react.production.min.js">>,
       <<"https://unpkg.com", "/react-dom@18/umd/react-dom.production.min.js">>,
       <<"https://unpkg.com", "/@babel/standalone/babel.min.js">> >>

NO_CACHE_URLS == { <<AnthropicOrigin>> }

Range(s) == {s[i] : i \in 1..Len(s)}

PrecacheHrefs == Range(PRECACHE_URLS)

----------------------------------------------------------------------------
(* Requests and responses *)

\* Values that stand where a response is absent; they are no response the
\* network, a cache or the handler produces.
Absent(what) == [status |-> 0, type |-> what, body |-> ""]

NoEntry == Absent("<undefined>")    \* a cache lookup that finds nothing
NoResp == Absent("<no response>")   \* the network fetch has not settled
NoResult == Absent("<pending>")     \* the respondWith promise has not settled
Rejected == Absent("<rejected>")    \* a promise that rejected

\* The Accept header is the sequence of its media ranges; hasAccept is false
\* when the request carries none and headers.get('accept') is null.
RqPage == [url |-> <<SelfOrigin, "/index.html">>, method |-> "GET",
           hasAccept |-> TRUE, accept |-> <<"text/html", "application/xhtml+xml">>]
RqData == [url |-> <<SelfOrigin, "/api/data">>, method |-> "GET",
           hasAccept |-> TRUE, accept |-> <<"application/json">>]
RqBare == [url |-> <<SelfOrigin, "/api/data">>, method |-> "GET",
           hasAccept |-> FALSE, accept |-> <<>>]
RqPost == [url |-> <<SelfOrigin, "/api/data">>, method |-> "POST",
           hasAccept |-> TRUE, accept |-> <<"application/json">>]
RqApi  == [url |-> <<AnthropicOrigin, "/v1/messages">>, method |-> "GET",
           hasAccept |-> TRUE, accept |-> <<"application/json">>]

NoReq == [url |-> <<>>, method |-> "", hasAccept |-> FALSE, accept |-> <<>>]

Requests == {RqPage, RqData, RqBare, RqPost, RqApi}

Hrefs == PrecacheHrefs \cup {r.url : r \in Requests}

\* What the network can answer a fetch with.
NetResponses ==
    { [status |-> 200, type |-> "basic", body |-> "v1"],
      [status |-> 404, type |-> "basic", body |-> "not found"],
      [status |-> 0, type |-> "opaque", body |-> ""] }

\* The copy of a resource fetched at install time, or by an earlier run.
PrecachedResponse == [status |-> 200, type |-> "basic", body |-> "v0"]

\* new Response(`<!DOCTYPE html>...`, { headers: { 'Content-Type': 'text/html' } })
OfflinePage == [status |-> 200, type |-> "default", body |-> "offline page"]

\* new Response('Service Unavailable', { status: 503 })
Unavailable == [status |-> 503, type |-> "default", body |-> "Service Unavailable"]

\* String.prototype.startsWith on hrefs
StartsWith(s, p) == Len(p) <= Len(s) /\ SubSeq(s, 1, Len(p)) = p

\* String.prototype.includes on a header value: one of its media ranges is `part`
Includes(value, part) == \E i \in 1..Len(value) : value[i] = part

\* Variant: the denylist compared for equality with the whole href.
DenylistedExact(href) == \E noCache \in NO_CACHE_URLS : href = noCache

\* NO_CACHE_URLS.some(noCache => url.href.startsWith(noCache))
Denylisted(href) == \E noCache \in NO_CACHE_URLS : StartsWith(href, noCache)

\* Variant: the method is not looked at.
InterceptedAnyMethod(request) == ~Denylisted(request.url)

\* The fetch handler goes on to respondWith: neither early return is taken.
Intercepted(request) == ~Denylisted(request.url) /\ request.method = "GET"

\* Variant: the status is not looked at.
ShouldCacheAnyStatus(response) == response # NoResp /\ response.type # "opaque"

\* response && response.status === 200 && response.type !== 'opaque'
ShouldCache(response) ==
    response # NoResp /\ response.status = 200 /\ response.type # "opaque"

----------------------------------------------------------------------------
(* The cache store *)

EmptyCache == [h \in Hrefs |-> NoEntry]

Exists(name) == \E i \in 1..Len(cacheOrder) : cacheOrder[i] = name

RemoveName(order, name) == SelectSeq(order, LAMBDA n : n # name)

\* caches.open(name): the cache is created, last in order, when it is missing
OpenedOrder(name) == IF Exists(name) THEN cacheOrder ELSE Append(cacheOrder, name)

\* caches.match(request): the first cache, in creation order, holding the URL
RECURSIVE MatchFrom(_, _)
MatchFrom(i, href) ==
    IF i > Len(cacheOrder) THEN NoEntry
    ELSE IF cacheEntries[cacheOrder[i]][href] # NoEntry
         THEN cacheEntries[cacheOrder[i]][href]
         ELSE MatchFrom(i + 1, href)

CachesMatch(request) == MatchFrom(1, request.url)

\* The continuation of caches.match in the fetch handler's catch branch.
FallbackResponse(request, cachedResponse) ==
    IF cachedResponse # NoEntry THEN cachedResponse
    ELSE IF ~request.hasAccept THEN Rejected   \* null.includes: TypeError
    ELSE IF Includes(request.accept, "text/html") THEN OfflinePage
    ELSE Unavailable

----------------------------------------------------------------------------
(* Initial state *)

IdleFetch == [pc |-> "idle", req |-> NoReq, net |-> NoResp, responded |-> FALSE,
              matchCalled |-> FALSE, cached |-> NoResult, result |-> NoResult,
              mirror |-> "none", writeError |-> "none",
              orphan |-> FALSE, deletedSince |-> FALSE]

\* The stores an earlier run of the application can have left behind.
InitialStores ==
    { << <<>>, [n \in CacheNames |-> EmptyCache] >>,
      << <<OldCache, RUNTIME_CACHE>>,
         [n \in CacheNames |->
            IF n = OldCache
            THEN [EmptyCache EXCEPT ![<<SelfOrigin, "/index.html">>] = PrecachedResponse]
            ELSE IF n = RUNTIME_CACHE
            THEN [EmptyCache EXCEPT ![<<SelfOrigin, "/api/data">>] = PrecachedResponse]
            ELSE EmptyCache] >> }

\* A store in which two caches of an earlier version are left.
TwoStaleStore ==
    << <<OldCache, OldRuntime, RUNTIME_CACHE>>,
       [n \in CacheNames |->
          IF n = OldCache
          THEN [EmptyCache EXCEPT ![<<SelfOrigin, "/index.html">>] = PrecachedResponse]
          ELSE IF n \in {OldRuntime, RUNTIME_CACHE}
          THEN [EmptyCache EXCEPT ![<<SelfOrigin, "/api/data">>] = PrecachedResponse]
          ELSE EmptyCache] >>

\* The window clients of the worker's origin: WindowClient.url is the absolute
\* URL of the document.
WindowClients ==
    { [id |-> "app", url |-> << SelfOrigin, "/" >>],
      [id |-> "tab", url |-> << SelfOrigin, "/index.html" >>] }

Clients == {c.id : c \in WindowClients}

StoreInit(stores) == \E st \in stores : cacheOrder = st[1] /\ cacheEntries = st[2]

\* No client is controlled before the worker activates; no push, no click yet.
ClientsInit ==
    /\ controlled = {}
    /\ msgClients = {}
    /\ received = [c \in Clients |-> 0]

PushInit == pushes = <<>> /\ shown = <<>>

ClickInit(clients) ==
    /\ clickPc = "idle"
    /\ openClients = clients
    /\ notifOpen = FALSE
    /\ focused = {}
    /\ opened = 0

Init ==
    /\ StoreInit(InitialStores)
    /\ ClientsInit
    /\ PushInit
    /\ ClickInit(WindowClients)
    /\ installPc = "idle"
    /\ installOrphan = FALSE
    /\ precacheOk = {}
    /\ skipWaitingCalled = FALSE
    /\ activatePc = "idle"
    /\ listed = {}
    /\ delRequested = {}
    /\ delPending = {}
    /\ claimCalled = FALSE
    /\ fetches = [h \in 1..MaxFetches |-> IdleFetch]
    /\ msgPc = "idle"
    /\ msgPending = {}
    /\ msgCount = 0
    /\ posted = 0

----------------------------------------------------------------------------
(* caches.delete(name), as every handler sees it *)

\* A fetch handler that is mirroring notes the deletion; one that already holds
\* the Cache object of the deleted cache goes on to put into a detached object.
FetchesAfterDelete(name) ==
    [h \in 1..MaxFetches |->
        IF Exists(name) /\ fetches[h].mirror \in {"opening", "putting"}
        THEN [fetches[h] EXCEPT
                 !.deletedSince = TRUE,
                 !.orphan = @ \/ (name = RUNTIME_CACHE /\ fetches[h].mirror = "putting")]
        ELSE fetches[h]]

DeleteCache(name) ==
    /\ cacheOrder' = RemoveName(cacheOrder, name)
    /\ cacheEntries' = [cacheEntries EXCEPT ![name] = EmptyCache]
    /\ fetches' = FetchesAfterDelete(name)
    /\ installOrphan' = (installOrphan \/ (name = CACHE_NAME /\ installPc = "adding"))

----------------------------------------------------------------------------
(* install *)

\* The install event is dispatched: waitUntil(caches.open(CACHE_NAME) ...)
InstallEvent ==
    /\ installPc = "idle"
    /\ installPc' = "opening"
    /\ UNCHANGED << cacheOrder, cacheEntries, installOrphan, precacheOk,
                    skipWaitingCalled, activatePc, listed, delRequested, delPending,
                    claimCalled, fetches, msgPc, msgPending, msgCount, posted,
                    clientVars, pushVars, clickVars >>

\* caches.open(CACHE_NAME) resolves; its continuation calls cache.addAll
InstallOpenOk ==
    /\ installPc = "opening"
    /\ installPc' = "adding"
    /\ cacheOrder' = OpenedOrder(CACHE_NAME)
    /\ installOrphan' = FALSE
    /\ UNCHANGED << cacheEntries, precacheOk, skipWaitingCalled, activatePc, listed,
                    delRequested, delPending, claimCalled, fetches, msgPc,
                    msgPending, msgCount, posted,
                    clientVars, pushVars, clickVars >>

\* caches.open(CACHE_NAME) rejects: nothing catches it, waitUntil rejects
InstallOpenFail ==
    /\ installPc = "opening"
    /\ installPc' = "failed"
    /\ UNCHANGED << cacheOrder, cacheEntries, installOrphan, precacheOk,
                    skipWaitingCalled, activatePc, listed, delRequested, delPending,
                    claimCalled, fetches, msgPc, msgPending, msgCount, posted,
                    clientVars, pushVars, clickVars >>

\* cache.addAll(requests): all-or-nothing.  It stores every response when every
\* fetch succeeded and rejects, storing none, when one did not.
AddAllResolves(ok) == ok = PrecacheHrefs

AddAllStored(ok) ==
    IF AddAllResolves(ok) /\ ~installOrphan
    THEN [cacheEntries EXCEPT ![CACHE_NAME] =
             [h \in Hrefs |-> IF h \in ok THEN PrecachedResponse ELSE @[h]]]
    ELSE cacheEntries

\* Variant: the rejection of addAll is not caught.
AfterAddAllUncaught(ok) == IF AddAllResolves(ok) THEN "settled" ELSE "failed"

\* .catch(err => { console.warn(...); return Promise.resolve(); }): the chain
\* goes on whether addAll resolved or rejected
AfterAddAll(ok) == "settled"

\* addAll settles
InstallAddAllSettle(ok) ==
    /\ installPc = "adding"
    /\ installPc' = AfterAddAll(ok)
    /\ precacheOk' = ok
    /\ cacheEntries' = AddAllStored(ok)
    /\ UNCHANGED << cacheOrder, installOrphan, skipWaitingCalled, activatePc, listed,
                    delRequested, delPending, claimCalled, fetches, msgPc,
                    msgPending, msgCount, posted,
                    clientVars, pushVars, clickVars >>

\* .then(() => self.skipWaiting())
InstallSkipWaiting ==
    /\ installPc = "settled"
    /\ installPc' = "done"
    /\ skipWaitingCalled' = TRUE
    /\ UNCHANGED << cacheOrder, cacheEntries, installOrphan, precacheOk, activatePc,
                    listed, delRequested, delPending, claimCalled, fetches, msgPc,
                    msgPending, msgCount, posted,
                    clientVars, pushVars, clickVars >>

----------------------------------------------------------------------------
(* activate *)

\* Variant: only the precache cache is kept.
IsStaleButPrecache(cacheName) == cacheName # CACHE_NAME

\* cacheName !== CACHE_NAME && cacheName !== RUNTIME_CACHE
IsStale(cacheName) == cacheName # CACHE_NAME /\ cacheName # RUNTIME_CACHE

\* The worker installed; the activate event is dispatched: waitUntil(caches.keys() ...)
\* The record of the install handler's fetches ends with the install phase.
ActivateEvent ==
    /\ installPc = "done"
    /\ activatePc = "idle"
    /\ activatePc' = "listing"
    /\ precacheOk' = {}
    /\ UNCHANGED << cacheOrder, cacheEntries, installPc, installOrphan,
                    skipWaitingCalled, listed, delRequested, delPending, claimCalled,
                    fetches, msgPc, msgPending, msgCount, posted,
                    clientVars, pushVars, clickVars >>

\* caches.keys() resolves; the continuation calls caches.delete on every stale name
ActivateKeys ==
    /\ activatePc = "listing"
    /\ activatePc' = "deleting"
    /\ listed' = Range(cacheOrder)
    /\ delRequested' = {n \in Range(cacheOrder) : IsStale(n)}
    /\ delPending' = {n \in Range(cacheOrder) : IsStale(n)}
    /\ UNCHANGED << cacheOrder, cacheEntries, installPc, installOrphan, precacheOk,
                    skipWaitingCalled, claimCalled, fetches, msgPc, msgPending,
                    msgCount, posted,
                    clientVars, pushVars, clickVars >>

\* one caches.delete(cacheName) resolves
ActivateDeleteOk(n) ==
    /\ activatePc \in {"deleting", "failed"}
    /\ n \in delPending
    /\ delPending' = delPending \ {n}
    /\ DeleteCache(n)
    /\ UNCHANGED << installPc, precacheOk, skipWaitingCalled, activatePc, listed,
                    delRequested, claimCalled, msgPc, msgPending, msgCount, posted,
                    clientVars, pushVars, clickVars >>

\* one caches.delete(cacheName) rejects: Promise.all, and with it waitUntil, rejects
ActivateDeleteFail(n) ==
    /\ activatePc \in {"deleting", "failed"}
    /\ n \in delPending
    /\ delPending' = delPending \ {n}
    /\ activatePc' = "failed"
    /\ UNCHANGED << cacheOrder, cacheEntries, installPc, installOrphan, precacheOk,
                    skipWaitingCalled, listed, delRequested, claimCalled, fetches,
                    msgPc, msgPending, msgCount, posted,
                    clientVars, pushVars, clickVars >>

\* Variant: clients are claimed without waiting for the deletions.
StaleDeletedNotAwaited == TRUE

\* return Promise.all(...) resolved: every caches.delete of a stale cache resolved
StaleDeleted == delPending = {}

\* Promise.all resolved: .then(() => self.clients.claim())
ActivateClaim ==
    /\ activatePc = "deleting"
    /\ StaleDeleted
    /\ activatePc' = "claimed"
    /\ claimCalled' = TRUE
    /\ controlled' = Clients
    /\ UNCHANGED << cacheOrder, cacheEntries, installPc, installOrphan, precacheOk,
                    skipWaitingCalled, listed, delRequested, delPending, fetches,
                    msgPc, msgPending, msgCount, posted,
                    msgClients, received, pushVars, clickVars >>

\* The activate handler's waitUntil promise has settled, either way: the worker
\* is active and gets fetch events.
Activated == activatePc \in {"claimed", "failed"}

----------------------------------------------------------------------------
(* fetch *)

\* A new invocation takes the first free place.
NextFetch(h) ==
    /\ fetches[h].pc = "idle"
    /\ \A g \in 1..(h - 1) : fetches[g].pc # "idle"

\* The synchronous part of the handler: the two early returns, or respondWith(fetch(request) ...)
FetchStarted(request) ==
    IF Intercepted(request)
    THEN [IdleFetch EXCEPT !.req = request, !.pc = "fetching", !.responded = TRUE]
    ELSE [IdleFetch EXCEPT !.req = request, !.pc = "passthrough"]

FetchEvent(h, request) ==
    /\ Activated
    /\ NextFetch(h)
    /\ fetches' = [fetches EXCEPT ![h] = FetchStarted(request)]
    /\ UNCHANGED << cacheOrder, cacheEntries, installPc, installOrphan, precacheOk,
                    skipWaitingCalled, activatePc, listed, delRequested, delPending,
                    claimCalled, msgPc, msgPending, msgCount, posted,
                    clientVars, pushVars, clickVars >>

\* Variant: cache first, the cached copy is preferred to the network's response.
NetResolvedCacheFirst(f, response) ==
    [f EXCEPT !.pc = "done", !.net = response, !.matchCalled = TRUE,
              !.cached = CachesMatch(f.req),
              !.result = IF CachesMatch(f.req) # NoEntry
                         THEN CachesMatch(f.req) ELSE response,
              !.mirror = IF ShouldCache(response) THEN "opening" ELSE "none"]

\* Variant: the response is returned only once the cache write is done.
NetResolvedAwaitsWrite(f, response) ==
    [f EXCEPT !.pc = IF ShouldCache(response) THEN "fetching" ELSE "done",
              !.net = response,
              !.result = IF ShouldCache(response) THEN NoResult ELSE response,
              !.mirror = IF ShouldCache(response) THEN "opening" ELSE "none"]

\* .then((response) => { if (...) { caches.open(RUNTIME_CACHE)... } return response; })
NetResolved(f, response) ==
    [f EXCEPT !.pc = "done", !.net = response, !.result = response,
              !.mirror = IF ShouldCache(response) THEN "opening" ELSE "none"]

FetchNetResolve(h, response) ==
    /\ fetches[h].pc = "fetching"
    /\ fetches' = [fetches EXCEPT ![h] = NetResolved(fetches[h], response)]
    /\ UNCHANGED << cacheOrder, cacheEntries, installPc, installOrphan, precacheOk,
                    skipWaitingCalled, activatePc, listed, delRequested, delPending,
                    claimCalled, msgPc, msgPending, msgCount, posted,
                    clientVars, pushVars, clickVars >>

\* .catch(() => { return caches.match(request) ... })
NetRejected(f) == [f EXCEPT !.pc = "matching", !.net = Rejected, !.matchCalled = TRUE]

FetchNetReject(h) ==
    /\ fetches[h].pc = "fetching"
    /\ fetches' = [fetches EXCEPT ![h] = NetRejected(fetches[h])]
    /\ UNCHANGED << cacheOrder, cacheEntries, installPc, installOrphan, precacheOk,
                    skipWaitingCalled, activatePc, listed, delRequested, delPending,
                    claimCalled, msgPc, msgPending, msgCount, posted,
                    clientVars, pushVars, clickVars >>

\* Variant: the response of the failure path goes through the caching branch.
MatchResolvedCaching(f) ==
    [f EXCEPT !.pc = "done", !.cached = CachesMatch(f.req),
              !.result = FallbackResponse(f.req, CachesMatch(f.req)),
              !.net = FallbackResponse(f.req, CachesMatch(f.req)),
              !.mirror = IF FallbackResponse(f.req, CachesMatch(f.req)) # Rejected
                            /\ ShouldCache(FallbackResponse(f.req, CachesMatch(f.req)))
                         THEN "opening" ELSE "none"]

\* caches.match(request) resolves: .then((cachedResponse) => { ... })
MatchResolved(f) ==
    [f EXCEPT !.pc = "done", !.cached = CachesMatch(f.req),
              !.result = FallbackResponse(f.req, CachesMatch(f.req))]

FetchMatchResolve(h) ==
    /\ fetches[h].pc = "matching"
    /\ fetches' = [fetches EXCEPT ![h] = MatchResolved(fetches[h])]
    /\ UNCHANGED << cacheOrder, cacheEntries, installPc, installOrphan, precacheOk,
                    skipWaitingCalled, activatePc, listed, delRequested, delPending,
                    claimCalled, msgPc, msgPending, msgCount, posted,
                    clientVars, pushVars, clickVars >>

\* caches.match(request) rejects: nothing catches it
FetchMatchReject(h) ==
    /\ fetches[h].pc = "matching"
    /\ fetches' = [fetches EXCEPT ![h] =
           [@ EXCEPT !.pc = "done", !.cached = Rejected, !.result = Rejected]]
    /\ UNCHANGED << cacheOrder, cacheEntries, installPc, installOrphan, precacheOk,
                    skipWaitingCalled, activatePc, listed, delRequested, delPending,
                    claimCalled, msgPc, msgPending, msgCount, posted,
                    clientVars, pushVars, clickVars >>

\* caches.open(RUNTIME_CACHE) resolves: .then((cache) => { cache.put(request, responseToCache); })
MirrorOpenOk(h) ==
    /\ fetches[h].mirror = "opening"
    /\ cacheOrder' = OpenedOrder(RUNTIME_CACHE)
    /\ fetches' = [fetches EXCEPT ![h] = [@ EXCEPT !.mirror = "putting"]]
    /\ UNCHANGED << cacheEntries, installPc, installOrphan, precacheOk,
                    skipWaitingCalled, activatePc, listed, delRequested, delPending,
                    claimCalled, msgPc, msgPending, msgCount, posted,
                    clientVars, pushVars, clickVars >>

\* caches.open(RUNTIME_CACHE) rejects: .catch(err => console.warn(...))
MirrorOpenFail(h) ==
    /\ fetches[h].mirror = "opening"
    /\ fetches' = [fetches EXCEPT ![h] = [@ EXCEPT !.mirror = "openFailed",
                                                   !.writeError = "logged"]]
    /\ UNCHANGED << cacheOrder, cacheEntries, installPc, installOrphan, precacheOk,
                    skipWaitingCalled, activatePc, listed, delRequested, delPending,
                    claimCalled, msgPc, msgPending, msgCount, posted,
                    clientVars, pushVars, clickVars >>

\* Variant: the response is put into the precache cache.
PutStoredInPrecache(f) ==
    IF f.orphan THEN cacheEntries
    ELSE [cacheEntries EXCEPT ![CACHE_NAME][f.req.url] = f.net]

\* cache.put(request, responseToCache) on the handler's Cache object
PutStored(f) ==
    IF f.orphan THEN cacheEntries
    ELSE [cacheEntries EXCEPT ![RUNTIME_CACHE][f.req.url] = f.net]

MirrorPutOk(h) ==
    /\ fetches[h].mirror = "putting"
    /\ cacheEntries' = PutStored(fetches[h])
    /\ fetches' = [fetches EXCEPT ![h] = [@ EXCEPT !.mirror = "stored"]]
    /\ UNCHANGED << cacheOrder, installPc, installOrphan, precacheOk,
                    skipWaitingCalled, activatePc, listed, delRequested, delPending,
                    claimCalled, msgPc, msgPending, msgCount, posted,
                    clientVars, pushVars, clickVars >>

\* cache.put rejects; its promise is not returned to the chain that has the
\* catch, so the rejection has no handler
MirrorPutFail(h) ==
    /\ fetches[h].mirror = "putting"
    /\ fetches' = [fetches EXCEPT ![h] = [@ EXCEPT !.mirror = "putFailed",
                                                   !.writeError = "unhandled"]]
    /\ UNCHANGED << cacheOrder, cacheEntries, installPc, installOrphan, precacheOk,
                    skipWaitingCalled, activatePc, listed, delRequested, delPending,
                    claimCalled, msgPc, msgPending, msgCount, posted,
                    clientVars, pushVars, clickVars >>

\* Every promise the invocation started has settled: the invocation is over.
Settled(f) == f.pc \in {"done", "passthrough"} /\ f.mirror \notin {"opening", "putting"}

FetchEnd(h) ==
    /\ Settled(fetches[h])
    /\ fetches' = [fetches EXCEPT ![h] = IdleFetch]
    /\ UNCHANGED << cacheOrder, cacheEntries, installPc, installOrphan, precacheOk,
                    skipWaitingCalled, activatePc, listed, delRequested, delPending,
                    claimCalled, msgPc, msgPending, msgCount, posted,
                    clientVars, pushVars, clickVars >>

----------------------------------------------------------------------------
(* message: CLEAR_CACHE *)

\* event.data.type === 'CLEAR_CACHE': waitUntil(caches.keys() ...)
ClearCacheMessage ==
    /\ msgPc \in {"idle", "done", "failed"}
    /\ msgPending = {}
    /\ msgCount < MaxClears
    /\ msgCount' = msgCount + 1
    /\ msgPc' = "listing"
    /\ UNCHANGED << cacheOrder, cacheEntries, installPc, installOrphan, precacheOk,
                    skipWaitingCalled, activatePc, listed, delRequested, delPending,
                    claimCalled, fetches, msgPending, posted,
                    clientVars, pushVars, clickVars >>

\* cacheNames.map((cacheName) => caches.delete(cacheName)): no name is left out
ClearTargets(cacheNames) == cacheNames

\* caches.keys() resolves; the continuation calls caches.delete on every name
ClearKeys ==
    /\ msgPc = "listing"
    /\ msgPc' = "deleting"
    /\ msgPending' = ClearTargets(Range(cacheOrder))
    /\ UNCHANGED << cacheOrder, cacheEntries, installPc, installOrphan, precacheOk,
                    skipWaitingCalled, activatePc, listed, delRequested, delPending,
                    claimCalled, fetches, msgCount, posted,
                    clientVars, pushVars, clickVars >>

ClearDeleteOk(n) ==
    /\ msgPc \in {"deleting", "failed"}
    /\ n \in msgPending
    /\ msgPending' = msgPending \ {n}
    /\ DeleteCache(n)
    /\ UNCHANGED << installPc, precacheOk, skipWaitingCalled, activatePc, listed,
                    delRequested, delPending, claimCalled, msgPc, msgCount, posted,
                    clientVars, pushVars, clickVars >>

ClearDeleteFail(n) ==
    /\ msgPc \in {"deleting", "failed"}
    /\ n \in msgPending
    /\ msgPending' = msgPending \ {n}
    /\ msgPc' = "failed"
    /\ UNCHANGED << cacheOrder, cacheEntries, installPc, installOrphan, precacheOk,
                    skipWaitingCalled, activatePc, listed, delRequested, delPending,
                    claimCalled, fetches, msgCount, posted,
                    clientVars, pushVars, clickVars >>

\* Variant: the chain does not wait for the deletions.
AllDeletedNotAwaited == TRUE

\* Promise.all(...) resolved: every caches.delete resolved, none rejected
AllDeleted == msgPending = {}

\* self.clients.matchAll() without options: the window clients the worker controls
MatchAllDefault == controlled

\* Promise.all resolved: .then(() => { ...; return self.clients.matchAll(); })
ClearMatchAll ==
    /\ msgPc = "deleting"
    /\ AllDeleted
    /\ msgPc' = "matching"
    /\ msgClients' = MatchAllDefault
    /\ UNCHANGED << cacheOrder, cacheEntries, installPc, installOrphan, precacheOk,
                    skipWaitingCalled, activatePc, listed, delRequested, delPending,
                    claimCalled, fetches, msgPending, msgCount, posted,
                    controlled, received, pushVars, clickVars >>

\* clients.forEach((client) => { client.postMessage({ type: 'CACHE_CLEARED', ... }) })
PostedTo(clients) ==
    [c \in Clients |-> IF c \in clients THEN received[c] + 1 ELSE received[c]]

\* .then((clients) => { clients.forEach(...) })
ClearPost ==
    /\ msgPc = "matching"
    /\ msgPc' = "done"
    /\ posted' = posted + 1
    /\ received' = PostedTo(msgClients)
    /\ UNCHANGED << cacheOrder, cacheEntries, installPc, installOrphan, precacheOk,
                    skipWaitingCalled, activatePc, listed, delRequested, delPending,
                    claimCalled, fetches, msgPending, msgCount,
                    controlled, msgClients, pushVars, clickVars >>

----------------------------------------------------------------------------
(* The window clients, as clients.matchAll() sees them *)

\* A window in scope loads while the worker is active: the worker controls it.
ClientLoads(c) ==
    /\ Activated
    /\ c \notin controlled
    /\ controlled' = controlled \cup {c}
    /\ UNCHANGED << cacheOrder, cacheEntries, installPc, installOrphan, precacheOk,
                    skipWaitingCalled, activatePc, listed, delRequested, delPending,
                    claimCalled, fetches, msgPc, msgPending, msgCount, posted,
                    msgClients, received, pushVars, clickVars >>

\* A window is force-reloaded: it bypasses the worker and is not controlled.
ClientForceReloads(c) ==
    /\ c \in controlled
    /\ controlled' = controlled \ {c}
    /\ UNCHANGED << cacheOrder, cacheEntries, installPc, installOrphan, precacheOk,
                    skipWaitingCalled, activatePc, listed, delRequested, delPending,
                    claimCalled, fetches, msgPc, msgPending, msgCount, posted,
                    msgClients, received, pushVars, clickVars >>

----------------------------------------------------------------------------
(* push *)

FieldStates == {"missing", "falsy", "truthy"}

\* The parsed payload objects: each recognized field is missing, holds a falsy
\* value ('' or false) or holds a truthy value.
PushObjects ==
    [title : FieldStates, body : FieldStates, tag : FieldStates,
     requireInteraction : FieldStates, data : {"missing", "truthy"}]

\* {} and every value whose properties are all undefined
AllMissing ==
    [title |-> "missing", body |-> "missing", tag |-> "missing",
     requireInteraction |-> "missing", data |-> "missing"]

\* event.data: none, the JSON text of an object, of null, of a scalar, or a
\* text that is not JSON
Payloads ==
    {[kind |-> k, fields |-> AllMissing] : k \in {"none", "null", "scalar", "text"}}
        \cup {[kind |-> "object", fields |-> o] : o \in PushObjects}

Supplied ==
    [title |-> "Oferta", body |-> "Hola", tag |-> "promo",
     requireInteraction |-> TRUE, data |-> {"url"}]

Blank ==
    [title |-> "", body |-> "", tag |-> "", requireInteraction |-> FALSE, data |-> {}]

Defaults ==
    [title |-> "Visual Mind AI", body |-> "Nueva notificación", tag |-> "default",
     requireInteraction |-> FALSE, data |-> {}]

\* data.x || default
OrDefault(o, field) ==
    IF o[field] = "truthy" THEN Supplied[field] ELSE Defaults[field]

\* title and options as the handler builds them from the parsed payload
Notification(o) ==
    [title |-> OrDefault(o, "title"),
     body |-> OrDefault(o, "body"),
     icon |-> "/icon-192.png",
     badge |-> "/badge-72.png",
     tag |-> OrDefault(o, "tag"),
     requireInteraction |-> OrDefault(o, "requireInteraction"),
     data |-> OrDefault(o, "data")]

\* event.data.json() throws on a text that is not JSON; data.title throws on null
PushThrows(p) == p.kind \in {"text", "null"}

\* The push event is dispatched.
PushEvent(p) ==
    /\ Len(pushes) < MaxPushes
    /\ pushes' = Append(pushes, p)
    /\ shown' = IF PushThrows(p) THEN shown ELSE Append(shown, Notification(p.fields))
    /\ notifOpen' = (notifOpen \/ ~PushThrows(p))
    /\ UNCHANGED << cacheOrder, cacheEntries, installPc, installOrphan, precacheOk,
                    skipWaitingCalled, activatePc, listed, delRequested, delPending,
                    claimCalled, fetches, msgPc, msgPending, msgCount, posted,
                    clientVars, clickPc, openClients, focused, opened >>

----------------------------------------------------------------------------
(* notificationclick *)

\* The string '/' the handler compares client.url with
RootPath == << "/" >>

\* The window self.clients.openWindow('/') opens
NewWindow == [id |-> "new", url |-> << SelfOrigin, "/" >>]

\* The user clicks the displayed notification: event.notification.close(),
\* then waitUntil(self.clients.matchAll({type: 'window', includeUncontrolled: true}))
ClickEvent ==
    /\ clickPc \in {"idle", "done"}
    /\ notifOpen
    /\ notifOpen' = FALSE
    /\ clickPc' = "matching"
    /\ UNCHANGED << cacheOrder, cacheEntries, installPc, installOrphan, precacheOk,
                    skipWaitingCalled, activatePc, listed, delRequested, delPending,
                    claimCalled, fetches, msgPc, msgPending, msgCount, posted,
                    clientVars, pushVars, openClients, focused, opened >>

\* client.url === '/' && 'focus' in client
Focusable(clientList) == {c \in clientList : c.url = RootPath}

\* matchAll resolves with the open windows: the first client that passes the
\* test is focused, otherwise a window is opened at '/'.
ClickMatchResolve ==
    /\ clickPc = "matching"
    /\ clickPc' = "done"
    /\ IF Focusable(openClients) # {}
       THEN /\ \E c \in Focusable(openClients) : focused' = focused \cup {c.id}
            /\ UNCHANGED << opened, openClients >>
       ELSE /\ opened' = opened + 1
            /\ openClients' = openClients \cup {NewWindow}
            /\ UNCHANGED focused
    /\ UNCHANGED << cacheOrder, cacheEntries, installPc, installOrphan, precacheOk,
                    skipWaitingCalled, activatePc, listed, delRequested, delPending,
                    claimCalled, fetches, msgPc, msgPending, msgCount, posted,
                    clientVars, pushVars, notifOpen >>

----------------------------------------------------------------------------
(* Specification *)

Next ==
    \/ InstallEvent
    \/ InstallOpenOk
    \/ InstallOpenFail
    \/ \E ok \in SUBSET PrecacheHrefs : InstallAddAllSettle(ok)
    \/ InstallSkipWaiting
    \/ ActivateEvent
    \/ ActivateKeys
    \/ \E n \in CacheNames : ActivateDeleteOk(n)
    \/ \E n \in CacheNames : ActivateDeleteFail(n)
    \/ ActivateClaim
    \/ \E h \in 1..MaxFetches, request \in Requests : FetchEvent(h, request)
    \/ \E h \in 1..MaxFetches, response \in NetResponses : FetchNetResolve(h, response)
    \/ \E h \in 1..MaxFetches : FetchNetReject(h)
    \/ \E h \in 1..MaxFetches : FetchMatchResolve(h)
    \/ \E h \in 1..MaxFetches : FetchMatchReject(h)
    \/ \E h \in 1..MaxFetches : MirrorOpenOk(h)
    \/ \E h \in 1..MaxFetches : MirrorOpenFail(h)
    \/ \E h \in 1..MaxFetches : MirrorPutOk(h)
    \/ \E h \in 1..MaxFetches : MirrorPutFail(h)
    \/ \E h \in 1..MaxFetches : FetchEnd(h)
    \/ ClearCacheMessage
    \/ ClearKeys
    \/ \E n \in CacheNames : ClearDeleteOk(n)
    \/ \E n \in CacheNames : ClearDeleteFail(n)
    \/ ClearMatchAll
    \/ ClearPost

Spec == Init /\ [][Next]_vars

\* The worker's life cycle with the messages and the window clients, before
\* any fetch event: two caches of an earlier version may be left.
LifecycleInit ==
    /\ StoreInit(InitialStores \cup {TwoStaleStore})
    /\ ClientsInit
    /\ PushInit
    /\ ClickInit(WindowClients)
    /\ installPc = "idle"
    /\ installOrphan = FALSE
    /\ precacheOk = {}
    /\ skipWaitingCalled = FALSE
    /\ activatePc = "idle"
    /\ listed = {}
    /\ delRequested = {}
    /\ delPending = {}
    /\ claimCalled = FALSE
    /\ fetches = [h \in 1..MaxFetches |-> IdleFetch]
    /\ msgPc = "idle"
    /\ msgPending = {}
    /\ msgCount = 0
    /\ posted = 0

LifecycleNext ==
    \/ InstallEvent
    \/ InstallOpenOk
    \/ InstallOpenFail
    \/ \E ok \in SUBSET PrecacheHrefs : InstallAddAllSettle(ok)
    \/ InstallSkipWaiting
    \/ ActivateEvent
    \/ ActivateKeys
    \/ \E n \in CacheNames : ActivateDeleteOk(n)
    \/ \E n \in CacheNames : ActivateDeleteFail(n)
    \/ ActivateClaim
    \/ ClearCacheMessage
    \/ ClearKeys
    \/ \E n \in CacheNames : ClearDeleteOk(n)
    \/ \E n \in CacheNames : ClearDeleteFail(n)
    \/ ClearMatchAll
    \/ ClearPost
    \/ \E c \in Clients : ClientLoads(c)
    \/ \E c \in Clients : ClientForceReloads(c)

LifecycleSpec == LifecycleInit /\ [][LifecycleNext]_vars

\* Push events and notification clicks, with any of the origin's windows open.
NotifyInit ==
    /\ StoreInit(InitialStores)
    /\ ClientsInit
    /\ PushInit
    /\ \E open \in SUBSET WindowClients : ClickInit(open)
    /\ installPc = "idle"
    /\ installOrphan = FALSE
    /\ precacheOk = {}
    /\ skipWaitingCalled = FALSE
    /\ activatePc = "idle"
    /\ listed = {}
    /\ delRequested = {}
    /\ delPending = {}
    /\ claimCalled = FALSE
    /\ fetches = [h \in 1..MaxFetches |-> IdleFetch]
    /\ msgPc = "idle"
    /\ msgPending = {}
    /\ msgCount = 0
    /\ posted = 0

NotifyNext ==
    \/ \E p \in Payloads : PushEvent(p)
    \/ ClickEvent
    \/ ClickMatchResolve

NotifySpec == NotifyInit /\ [][NotifyNext]_vars

\* The host runs every promise continuation it has queued, and every cache
\* operation and fetch it has started settles, one way or the other.
InstallProgress ==
    \/ InstallOpenOk
    \/ InstallOpenFail
    \/ \E ok \in SUBSET PrecacheHrefs : InstallAddAllSettle(ok)
    \/ InstallSkipWaiting

FetchProgress(h) ==
    \/ \E response \in NetResponses : FetchNetResolve(h, response)
    \/ FetchNetReject(h)
    \/ FetchMatchResolve(h)
    \/ FetchMatchReject(h)

MirrorProgress(h) ==
    \/ MirrorOpenOk(h)
    \/ MirrorOpenFail(h)
    \/ MirrorPutOk(h)
    \/ MirrorPutFail(h)

FairSpec ==
    /\ Spec
    /\ WF_vars(InstallProgress)
    /\ \A h \in 1..MaxFetches : WF_vars(FetchProgress(h)) /\ WF_vars(MirrorProgress(h))

----------------------------------------------------------------------------
(* Properties *)

IsResponse(x) == x \in NetResponses

KnownCaches == {CACHE_NAME, RUNTIME_CACHE}

\* The href begins with the denylisted origin.
BeginsWithDenylisted(href) == StartsWith(href, <<"https://api.anthropic.com">>)

\* C1 (network-first ordering): a handler has called caches.match only for an
\* intercepted request whose network fetch it had started and which rejected;
\* a handler whose network fetch resolved returns exactly that response and
\* has made no cache lookup.
C1_NetworkFirst ==
    \A h \in 1..MaxFetches :
        LET f == fetches[h] IN
        /\ f.matchCalled => f.responded /\ f.net = Rejected
        /\ f.cached # NoResult => f.matchCalled
        /\ IsResponse(f.net) =>
              f.responded /\ f.result = f.net /\ ~f.matchCalled /\ f.cached = NoResult

C1_Witness ==
    \E h \in 1..MaxFetches :
        /\ fetches[h].pc = "done"
        /\ fetches[h].net = Rejected
        /\ fetches[h].matchCalled
        /\ fetches[h].result = PrecachedResponse

\* What C2 says the handler returns once the network fetch has rejected and
\* the cache lookup has answered.
ClaimedFallback(request, cachedResponse) ==
    IF cachedResponse # NoEntry THEN cachedResponse
    ELSE IF request.hasAccept /\ Includes(request.accept, "text/html") THEN OfflinePage
    ELSE Unavailable

\* C2 (fallback chain): when the network fetch rejected and the lookup
\* answered, the handler returns the cached response if there is one, else the
\* offline page if Accept contains text/html, else the 503 response.
C2_FallbackChain ==
    \A h \in 1..MaxFetches :
        LET f == fetches[h] IN
        (f.pc = "done" /\ f.net = Rejected /\ f.cached # Rejected)
            => f.result = ClaimedFallback(f.req, f.cached)

\* C3 (respondWith never rejects): every settled respondWith promise holds a
\* response: the network's, a cached one, the offline page or the 503 response.
C3_AlwaysResponds ==
    \A h \in 1..MaxFetches :
        LET f == fetches[h] IN
        (f.responded /\ f.pc = "done") =>
            \/ IsResponse(f.result) /\ f.result = f.net
            \/ f.result # NoEntry /\ f.result # Rejected /\ f.result = f.cached
            \/ f.result = OfflinePage
            \/ f.result = Unavailable

\* Every entry of the runtime cache is a status-200, non-opaque response under
\* a URL off the denylist.
RuntimeEntriesValid ==
    \A u \in Hrefs :
        LET e == cacheEntries[RUNTIME_CACHE][u] IN
        e # NoEntry =>
            e.status = 200 /\ e.type # "opaque" /\ ~BeginsWithDenylisted(u)

\* Every step that writes an entry of the runtime cache writes the network
\* response of an intercepted GET request under that request's URL.
RuntimeWriteValid ==
    \A u \in Hrefs :
        LET e == cacheEntries'[RUNTIME_CACHE][u] IN
        (e # cacheEntries[RUNTIME_CACHE][u] /\ e # NoEntry) =>
            \E h \in 1..MaxFetches :
                /\ fetches[h].req.url = u
                /\ fetches[h].req.method = "GET"
                /\ fetches[h].net = e
                /\ IsResponse(e)

\* C4 (runtime-cache content): the runtime cache only ever holds, and the fetch
\* handler only ever writes, network responses with status 200 and a type
\* other than opaque, under GET requests whose URL is off the denylist.
C4_RuntimeCacheContent == []RuntimeEntriesValid /\ [][RuntimeWriteValid]_vars

C4_Witness ==
    \E h \in 1..MaxFetches :
        /\ fetches[h].mirror = "stored"
        /\ ~fetches[h].orphan
        /\ cacheEntries[RUNTIME_CACHE][fetches[h].req.url] = fetches[h].net

\* The handler of request r got response v from the network and has started
\* to mirror it.
Mirroring(r, v) ==
    \E h \in 1..MaxFetches :
        fetches[h].req = r /\ fetches[h].net = v /\ fetches[h].mirror = "opening"

\* The runtime cache maps r to a copy of v.
Mirrored(r, v) == Exists(RUNTIME_CACHE) /\ cacheEntries[RUNTIME_CACHE][r.url] = v

\* Opening the runtime cache or the put failed, or a cache was deleted meanwhile.
MirrorExcused(r, v) ==
    \E h \in 1..MaxFetches :
        /\ fetches[h].req = r /\ fetches[h].net = v
        /\ fetches[h].mirror \in {"openFailed", "putFailed"} \/ fetches[h].deletedSince

\* C5 (mirroring liveness): once the network fetch of an intercepted GET
\* request has resolved with status 200 and a non-opaque type, the runtime
\* cache eventually maps the request to a copy of the response, unless
\* opening the cache or the put fails or a cache is deleted meanwhile.
C5_MirroringLiveness ==
    \A r \in {q \in Requests : q.method = "GET"} :
        \A v \in {w \in NetResponses : w.status = 200} :
            Mirroring(r, v) ~> (Mirrored(r, v) \/ MirrorExcused(r, v))

C5_Witness ==
    \E h \in 1..MaxFetches :
        /\ fetches[h].req = RqData
        /\ fetches[h].mirror = "stored"
        /\ ~fetches[h].deletedSince
        /\ Mirrored(RqData, fetches[h].net)

\* C6 (a cache write does not affect the response): a handler that started a
\* cache write has already returned the network response, whether that write
\* is pending, succeeded or failed.
C6_ResponseIndependentOfWrite ==
    \A h \in 1..MaxFetches :
        LET f == fetches[h] IN
        f.mirror # "none" => f.pc = "done" /\ IsResponse(f.net) /\ f.result = f.net

C6_Witness ==
    \E h \in 1..MaxFetches :
        /\ fetches[h].mirror = "putFailed"
        /\ fetches[h].result = fetches[h].net
        /\ IsResponse(fetches[h].result)

\* Once addAll was called the chain goes on to skipWaiting and nowhere else.
InstallGoesOn ==
    /\ installPc = "adding" => installPc' \in {"adding", "settled"}
    /\ installPc = "settled" => installPc' \in {"settled", "done"}

\* C7 (precache failure does not block installation): whatever the outcome of
\* cache.addAll, the install chain goes on, skipWaiting is eventually called
\* and waitUntil's promise resolves; skipWaiting is called only after addAll
\* has settled.
C7_PrecacheFailureDoesNotBlock ==
    /\ [](skipWaitingCalled <=> installPc = "done")
    /\ [][InstallGoesOn]_vars
    /\ (installPc = "adding") ~> (installPc = "done" /\ skipWaitingCalled)

C7_Witness ==
    /\ installPc = "done"
    /\ skipWaitingCalled
    /\ activatePc = "idle"
    /\ precacheOk = {}
    /\ \A u \in Hrefs : cacheEntries[CACHE_NAME][u] = NoEntry

\* C8 (best-effort precache): once the install handler has finished, with no
\* cache deleted meanwhile, every manifest URL whose fetch succeeded is stored
\* in the precache cache.
C8_BestEffortPrecache ==
    (installPc = "done" /\ activatePc = "idle" /\ msgCount = 0) =>
        \A u \in precacheOk : cacheEntries[CACHE_NAME][u] = PrecachedResponse

\* The activate handler asked for the deletion of exactly the stale caches it
\* listed, and once it claims the clients none of those exists.
ActivateDeletesStale ==
    /\ activatePc \in {"deleting", "claimed", "failed"} =>
          delRequested = listed \ KnownCaches
    /\ activatePc = "claimed" => \A n \in delRequested : ~Exists(n)

\* A step of the activate handler removes no known cache, changes no entry of
\* one, and removes only caches it listed.
ActivateFrame ==
    (delPending' # delPending \/ activatePc' # activatePc) =>
        /\ \A n \in KnownCaches :
              /\ cacheEntries'[n] = cacheEntries[n]
              /\ Exists(n) => n \in Range(cacheOrder')
        /\ \A n \in Range(cacheOrder) \ Range(cacheOrder') :
              n \in listed /\ n \notin KnownCaches

\* C9 (stale-cache cleanup): the activate handler deletes exactly the caches
\* it listed whose name is neither CACHE_NAME nor RUNTIME_CACHE, and leaves
\* the two known caches and their entries as they are.
C9_StaleCacheCleanup == []ActivateDeletesStale /\ [][ActivateFrame]_vars

C9_Witness ==
    /\ activatePc = "claimed"
    /\ delRequested = {OldCache}
    /\ Exists(RUNTIME_CACHE)
    /\ cacheEntries[RUNTIME_CACHE][<<SelfOrigin, "/api/data">>] = PrecachedResponse
    /\ cacheEntries[CACHE_NAME][<<SelfOrigin, "/">>] = PrecachedResponse

\* C10 (denylist bypass): a request whose URL begins with the denylisted
\* origin is never answered by the handler (no respondWith, no network fetch
\* of its own, no cache lookup, no cache write), and no cache holds an entry
\* under such a URL.
C10_DenylistBypass ==
    /\ \A h \in 1..MaxFetches :
          LET f == fetches[h] IN
          (f.req # NoReq /\ BeginsWithDenylisted(f.req.url)) =>
              /\ f.pc = "passthrough"
              /\ ~f.responded /\ ~f.matchCalled
              /\ f.net = NoResp /\ f.cached = NoResult /\ f.result = NoResult
              /\ f.mirror = "none"
    /\ \A n \in CacheNames, u \in Hrefs :
          BeginsWithDenylisted(u) => cacheEntries[n][u] = NoEntry

C10_Witness ==
    \E h \in 1..MaxFetches :
        fetches[h].req = RqApi /\ fetches[h].pc = "passthrough"

----------------------------------------------------------------------------
(* C11: the CLEAR_CACHE protocol *)

\* The deletions are requested for every name caches.keys() listed, and a
\* deletion that resolves has removed its cache.
ClearDeletesListed ==
    /\ (msgPc = "listing" /\ msgPc' = "deleting") => msgPending' = Range(cacheOrder)
    /\ (msgPc = "deleting" /\ msgPc' = "deleting") =>
           \A n \in msgPending \ msgPending' : ~Exists(n)'

\* The broadcast follows the resolution of every deletion, and a failed
\* deletion ends the handler without a broadcast.
ClearPostsAfterDeletions ==
    /\ (msgPc' = "matching" /\ msgPc # "matching") =>
           msgPc = "deleting" /\ msgPending = {}
    /\ posted' # posted => msgPc = "matching" /\ msgPending = {} /\ posted' = posted + 1
    /\ msgPc = "failed" => posted' = posted \/ msgPc' = "listing"
    /\ (msgPc = "failed" /\ msgPc' # "failed") => msgPc' = "listing"

\* C11 (as stated): on CLEAR_CACHE every listed cache is deleted, known caches
\* included; then one CACHE_CLEARED message is posted to every client, only
\* after all the deletions completed and never after a failed deletion.
C11_ClearCacheProtocol ==
    [][ /\ ClearDeletesListed
        /\ ClearPostsAfterDeletions
        /\ posted' # posted =>
               \A c \in Clients : received'[c] = received[c] + 1 ]_vars

\* C11 (amended): as above, but the message goes to the clients that
\* clients.matchAll() returned, which are the window clients the worker
\* controls when the deletions have completed; the other clients get nothing.
C11_ClearCacheProtocolControlled ==
    [][ /\ ClearDeletesListed
        /\ ClearPostsAfterDeletions
        /\ (msgPc' = "matching" /\ msgPc # "matching") => msgClients' = controlled
        /\ posted' # posted =>
               \A c \in Clients :
                   received'[c] = received[c] + (IF c \in msgClients THEN 1 ELSE 0) ]_vars

\* A broadcast reached the controlled client and not the uncontrolled one,
\* after the two known caches were deleted.
C11_Witness ==
    /\ posted = 1
    /\ msgPc = "done"
    /\ received["app"] = 1
    /\ received["tab"] = 0
    /\ ~Exists(CACHE_NAME)
    /\ ~Exists(RUNTIME_CACHE)

----------------------------------------------------------------------------
(* C12: a notification click focuses or opens *)

\* C12: the click closes the notification; when the handler's lookup settles
\* with a window client of the application open, one such window is focused
\* and no window is opened; a window is opened only when none is open.
C12_FocusOrOpen ==
    [][ (clickPc = "matching" /\ clickPc' = "done") =>
            /\ ~notifOpen
            /\ openClients # {} =>
                   /\ opened' = opened
                   /\ \E c \in openClients : c.id \in focused' /\ c.id \notin focused
            /\ openClients = {} => opened' = opened + 1 /\ focused' = focused ]_vars

----------------------------------------------------------------------------
(* C13: every push displays one notification *)

\* The notification the claim describes: defaults for what is missing, the
\* supplied value otherwise.
ClaimedNotification(p) ==
    LET Field(f) == IF p.kind # "object" \/ p.fields[f] = "missing" THEN Defaults[f]
                    ELSE IF p.fields[f] = "truthy" THEN Supplied[f]
                    ELSE Blank[f]
    IN  [title |-> Field("title"),
         body |-> Field("body"),
         icon |-> "/icon-192.png",
         badge |-> "/badge-72.png",
         tag |-> Field("tag"),
         requireInteraction |-> Field("requireInteraction"),
         data |-> Field("data")]

\* C13: every push event displays exactly one notification, whatever its
\* payload: defaults where a field is missing, supplied fields otherwise.
C13_PushAlwaysNotifies ==
    /\ Len(shown) = Len(pushes)
    /\ \A i \in 1..Len(shown) : shown[i] = ClaimedNotification(pushes[i])

----------------------------------------------------------------------------
(* C14: failures of the cache write *)

\* C14: every failure of the cache write in the fetch handler, of the open
\* or of the put, reaches the logging catch and is not an unhandled rejection.
C14_WriteFailuresLogged ==
    \A h \in 1..MaxFetches :
        fetches[h].mirror \in {"openFailed", "putFailed"} =>
            fetches[h].writeError = "logged"

----------------------------------------------------------------------------
(* C15: requests that are not GET *)

NonGet(f) == f.req # NoReq /\ f.req.method # "GET"

\* The handler returned at the method check: nothing was started for f.
NotIntercepted(f) ==
    /\ f.pc = "passthrough"
    /\ ~f.responded /\ ~f.matchCalled
    /\ f.net = NoResp /\ f.cached = NoResult /\ f.result = NoResult
    /\ f.mirror = "none" /\ f.writeError = "none"

\* A step of the handler of a request that is not GET leaves the cache store as it is.
NonGetFrame ==
    \A h \in 1..MaxFetches :
        (fetches'[h] # fetches[h] /\ (NonGet(fetches[h]) \/ NonGet(fetches'[h]))) =>
            /\ cacheOrder' = cacheOrder
            /\ cacheEntries' = cacheEntries

\* C15: for a request whose method is not GET the fetch handler never calls
\* respondWith, never fetches from the network itself and never reads or
\* writes a cache; no step of such a handler changes the cache store.
C15_NonGetNeverIntercepted ==
    /\ [](\A h \in 1..MaxFetches : NonGet(fetches[h]) => NotIntercepted(fetches[h]))
    /\ [][NonGetFrame]_vars

\* A POST went past the handler while the cache store held entries.
C15_Witness ==
    /\ \E h \in 1..MaxFetches : fetches[h].req = RqPost /\ fetches[h].pc = "passthrough"
    /\ Exists(CACHE_NAME)
    /\ Exists(RUNTIME_CACHE)

----------------------------------------------------------------------------
(* C16: activation ordering *)

\* The step in which self.clients.claim() is called
ClaimStep == ~claimCalled /\ claimCalled'

\* C16: clients.claim() is called only after every deletion of a stale cache
\* the activate handler started has completed, so that no cache listed as
\* stale exists when clients are claimed; after a failed deletion it is not
\* called.
C16_ClaimAfterDeletions ==
    /\ [][ClaimStep =>
             /\ activatePc = "deleting"
             /\ delPending = {}
             /\ \A n \in listed : IsStale(n) => n \in delRequested /\ ~Exists(n)]_vars
    /\ [](activatePc = "failed" => ~claimCalled)
    /\ [][activatePc = "failed" => activatePc' = "failed"]_vars

\* Clients were claimed after two stale caches were deleted.
C16_Witness ==
    /\ claimCalled
    /\ controlled = Clients
    /\ delRequested = {OldCache, OldRuntime}
    /\ ~Exists(OldCache)
    /\ ~Exists(OldRuntime)

----------------------------------------------------------------------------
(* C17: the copy served when the network fails *)

\* The response the fetch handler last mirrored under the URL and that no
\* deletion removed: what the runtime cache holds, when it came from the
\* network in this run.
LastMirrored(href) == cacheEntries[RUNTIME_CACHE][href]

\* No cache was deleted since the worker became active: the activate
\* handler's deletions are over and no CLEAR_CACHE message came.
NothingDeletedSinceActive == activatePc = "claimed" /\ msgCount = 0

\* C17: after a network answer with status 200 was written to the runtime
\* cache, and with no cache deleted since, a fetch of the same request whose
\* network attempt fails returns that most recently mirrored response, also
\* when the precache cache holds an older copy of the URL.
C17_OfflineServesFreshest ==
    [][\A h \in 1..MaxFetches :
          ( /\ fetches[h].pc = "matching"
            /\ fetches'[h].pc = "done"
            /\ fetches'[h].cached # Rejected
            /\ NothingDeletedSinceActive
            /\ LastMirrored(fetches[h].req.url) \in NetResponses )
          => fetches'[h].result = LastMirrored(fetches[h].req.url)]_vars

----------------------------------------------------------------------------
(* C18: the cache store when CACHE_CLEARED is sent *)

\* The cache store holds no cache and no entry.
StoreEmpty ==
    /\ cacheOrder = <<>>
    /\ \A n \in CacheNames, u \in Hrefs : cacheEntries[n][u] = NoEntry

\* C18: at the moment a client is sent CACHE_CLEARED the cache store holds
\* no cache and no entry, however the steps of the CLEAR_CACHE handler
\* interleave with the fetch handlers and the install handler.
C18_EmptyWhenCleared ==
    [][(posted' # posted /\ msgClients # {}) => StoreEmpty]_vars

----------------------------------------------------------------------------
(* C19: what the caches hold *)

\* The responses the handler builds itself on the failure path
Synthesized == {OfflinePage, Unavailable}

\* The responses that came from the network, at install, at fetch or in an
\* earlier run of the application
FromNetwork == NetResponses \cup {PrecachedResponse}

\* C19: the offline page and the 503 response are never written into a
\* cache: every entry of every cache is a response obtained from the network.
C19_SynthesizedNeverCached ==
    \A n \in CacheNames, u \in Hrefs :
        cacheEntries[n][u] # NoEntry =>
            /\ cacheEntries[n][u] \notin Synthesized
            /\ cacheEntries[n][u] \in FromNetwork

\* A synthesized response was returned while both known caches held entries.
C19_Witness ==
    /\ \E h \in 1..MaxFetches : fetches[h].result \in Synthesized
    /\ \E u \in Hrefs : cacheEntries[CACHE_NAME][u] # NoEntry
    /\ \E u \in Hrefs : cacheEntries[RUNTIME_CACHE][u] # NoEntry

============================================================================
